---- MODULE Spec2Model ----
(***************************************************************************)
(* keyboard-overlay: the reader thread, the KeyEvent channel and the       *)
(* update context of src/main.rs (App::process_input_event,                *)
(* render_keycodes and the pruning of pressed_keycodes).                   *)
(***************************************************************************)
EXTENDS Integers, Sequences, FiniteSets, TLC

(* ------------------------------ bounds -------------------------------- *)

\* number of records the reader thread reads from the device (Spec)
MaxRecords == 3
\* longest typing pattern drawn freely from TypedEvents (SpecTyping)
MaxPattern == 2
\* number of non-modifier keydowns typed before the typing stops (SpecTyping)
MaxKeydowns == 90

\* number of keycodes pushed into Xkb (SpecXkb)
MaxPushes == 2

(* ------------------------- program constants -------------------------- *)

\* reader_thread: const EV_KEY: u16 = 1
EV_KEY == 1
\* KeyPressState::Up as i32, KeyPressState::Down as i32
UP == 0
DOWN == 1
\* the value of an autorepeat record (comment at main.rs:16-19)
AUTOREPEAT == 2
\* render_keycodes: const MAX_LINES: usize = 40
MAX_LINES == 40
\* input-event-codes.h, as used by KeyPress::from_code
KEY_LEFTCTRL == 29
KEY_RIGHTCTRL == 97
KEY_LEFTSHIFT == 42
KEY_RIGHTSHIFT == 54
KEY_LEFTALT == 56
KEY_RIGHTALT == 100
KEY_LEFTMETA == 125
KEY_RIGHTMETA == 126
\* scancodes of two letter keys of code_to_str
KEY_A == 30
KEY_S == 31
\* a scancode code_to_str has no arm for (KEY_PAGEUP of input-event-codes.h)
KEY_PAGEUP == 104

\* scancodes of the Escape and Enter keys of code_to_str
KEY_ESC == 1
KEY_ENTER == 28
\* evdev_code_to_xkb_code: const EVDEV_OFFSET: u32 = 8
EVDEV_OFFSET == 8
\* xkbcommon-keysyms.h, as used by keysym_to_keypress and is_unprintable
XKB_KEY_Control_L == 65507
XKB_KEY_Control_R == 65508
XKB_KEY_Shift_L == 65505
XKB_KEY_Shift_R == 65506
XKB_KEY_Alt_L == 65513
XKB_KEY_Alt_R == 65514
XKB_KEY_Meta_L == 65511
XKB_KEY_Meta_R == 65512
XKB_KEY_Escape == 65307
XKB_KEY_Delete == 65535
XKB_KEY_BackSpace == 65288
\* xkbcommon-keysyms.h, keysyms keysym_to_keypress has no arm for
XKB_KEY_Super_L == 65515
XKB_KEY_Super_R == 65516
XKB_KEY_Return == 65293
XKB_KEY_a == 97
XKB_KEY_A == 65
XKB_KEY_NoSymbol == 0

(* --------------------------- pure functions --------------------------- *)

\* Option::None
None == "None"

C4_Reverse_mut(s) == s

\* VecDeque::iter().rev()
Reverse(s) == [i \in 1..Len(s) |-> s[Len(s) + 1 - i]]

code_to_str(code) ==
    CASE code = 1 -> "ESC"
      [] code = 2 -> "1"
      [] code = 3 -> "2"
      [] code = 4 -> "3"
      [] code = 5 -> "4"
      [] code = 6 -> "5"
      [] code = 7 -> "6"
      [] code = 8 -> "7"
      [] code = 9 -> "8"
      [] code = 10 -> "9"
      [] code = 11 -> "0"
      [] code = 12 -> "-"
      [] code = 13 -> "="
      [] code = 14 -> "BACKSPACE"
      [] code = 15 -> "TAB"
      [] code = 16 -> "Q"
      [] code = 17 -> "W"
      [] code = 18 -> "E"
      [] code = 19 -> "R"
      [] code = 20 -> "T"
      [] code = 21 -> "Y"
      [] code = 22 -> "U"
      [] code = 23 -> "I"
      [] code = 24 -> "O"
      [] code = 25 -> "P"
      [] code = 26 -> "LEFTBRACE"
      [] code = 27 -> "RIGHTBRACE"
      [] code = 28 -> "ENTER"
      [] code = 29 -> "LEFTCTRL"
      [] code = 30 -> "A"
      [] code = 31 -> "S"
      [] code = 32 -> "D"
      [] code = 33 -> "F"
      [] code = 34 -> "G"
      [] code = 35 -> "H"
      [] code = 36 -> "J"
      [] code = 37 -> "K"
      [] code = 38 -> "L"
      [] code = 39 -> "SEMICOLON"
      [] code = 40 -> "APOSTROPHE"
      [] code = 41 -> "GRAVE"
      [] code = 42 -> "LEFTSHIFT"
      [] code = 43 -> "BACKSLASH"
      [] code = 44 -> "Z"
      [] code = 45 -> "X"
      [] code = 46 -> "C"
      [] code = 47 -> "V"
      [] code = 48 -> "B"
      [] code = 49 -> "N"
      [] code = 50 -> "M"
      [] code = 51 -> "COMMA"
      [] code = 52 -> "DOT"
      [] code = 53 -> "SLASH"
      [] code = 54 -> "RIGHTSHIFT"
      [] code = 55 -> "KPASTERISK"
      [] code = 56 -> "LEFTALT"
      [] code = 57 -> "SPACE"
      [] code = 58 -> "CAPSLOCK"
      [] code = 59 -> "F1"
      [] code = 60 -> "F2"
      [] code = 61 -> "F3"
      [] code = 62 -> "F4"
      [] code = 63 -> "F5"
      [] code = 64 -> "F6"
      [] code = 65 -> "F7"
      [] code = 66 -> "F8"
      [] code = 67 -> "F9"
      [] code = 68 -> "F10"
      [] code = 69 -> "NUMLOCK"
      [] code = 70 -> "SCROLLLOCK"
      [] code = 71 -> "KP7"
      [] code = 72 -> "KP8"
      [] code = 73 -> "KP9"
      [] code = 74 -> "KPMINUS"
      [] code = 75 -> "KP4"
      [] code = 76 -> "KP5"
      [] code = 77 -> "KP6"
      [] code = 78 -> "KPPLUS"
      [] code = 79 -> "KP1"
      [] code = 80 -> "KP2"
      [] code = 81 -> "KP3"
      [] code = 82 -> "KP0"
      [] code = 83 -> "KPDOT"
      [] code = 87 -> "F11"
      [] code = 88 -> "F12"
      [] code = 89 -> "RO"
      [] code = 96 -> "KPENTER"
      [] code = 97 -> "RIGHTCTRL"
      [] code = 98 -> "KPSLASH"
      [] code = 99 -> "SYSRQ"
      [] code = 100 -> "RIGHTALT"
      [] code = 101 -> "LINEFEED"
      [] code = 102 -> "HOME"
      [] code = 103 -> "UP"
      [] OTHER -> "UNKNOWN"

C14_from_code_mut(code) ==
    CASE code \in {KEY_LEFTCTRL, KEY_RIGHTCTRL} -> [kind |-> "Ctrl", s |-> ""]
      [] code \in {KEY_LEFTSHIFT, KEY_RIGHTSHIFT} -> [kind |-> "Shift", s |-> ""]
      [] code \in {KEY_LEFTALT, KEY_RIGHTALT} -> [kind |-> "Alt", s |-> ""]
      [] code \in {KEY_LEFTMETA, KEY_RIGHTMETA} -> [kind |-> "Super", s |-> ""]
      [] code_to_str(code) = "UNKNOWN" -> [kind |-> "Dropped", s |-> ""]
      [] OTHER -> [kind |-> "Other", s |-> code_to_str(code)]

\* KeyPress::from_code; s is the label carried by KeyPress::Other
from_code(code) ==
    CASE code \in {KEY_LEFTCTRL, KEY_RIGHTCTRL} -> [kind |-> "Ctrl", s |-> ""]
      [] code \in {KEY_LEFTSHIFT, KEY_RIGHTSHIFT} -> [kind |-> "Shift", s |-> ""]
      [] code \in {KEY_LEFTALT, KEY_RIGHTALT} -> [kind |-> "Alt", s |-> ""]
      [] code \in {KEY_LEFTMETA, KEY_RIGHTMETA} -> [kind |-> "Super", s |-> ""]
      [] OTHER -> [kind |-> "Other", s |-> code_to_str(code)]

C6_event_press_state_mut(event) ==
    CASE event.value = UP -> "Up"
      [] event.value = DOWN -> "Down"
      [] OTHER -> "Down"

event_press_state(event) ==
    CASE event.value = UP -> "Up"
      [] event.value = DOWN -> "Down"
      [] OTHER -> None

C3_is_keydown_mut(press_state) == press_state \in {"Down", "Up"}

is_keydown(press_state) == press_state = "Down"

C20_Modifiers_update_mut(self, key_press, press_state) ==
    CASE key_press.kind = "Alt" ->
             [self EXCEPT !.alt = is_keydown(press_state)]
      [] key_press.kind = "Ctrl" ->
             [self EXCEPT !.ctrl = is_keydown(press_state)]
      [] key_press.kind = "Shift" /\ is_keydown(press_state) ->
             [self EXCEPT !.shift = TRUE]
      [] key_press.kind = "Super" ->
             [self EXCEPT !.sup = is_keydown(press_state)]
      [] OTHER -> self

C2_Modifiers_update_mut(self, key_press, press_state) ==
    CASE key_press.kind = "Alt" -> [self EXCEPT !.alt = is_keydown(press_state)]
      [] key_press.kind = "Ctrl" -> [self EXCEPT !.ctrl = is_keydown(press_state)]
      [] key_press.kind = "Shift" -> [self EXCEPT !.ctrl = is_keydown(press_state)]
      [] key_press.kind = "Super" -> [self EXCEPT !.sup = is_keydown(press_state)]
      [] OTHER -> self

Modifiers_update(self, key_press, press_state) ==
    CASE key_press.kind = "Alt" -> [self EXCEPT !.alt = is_keydown(press_state)]
      [] key_press.kind = "Ctrl" -> [self EXCEPT !.ctrl = is_keydown(press_state)]
      [] key_press.kind = "Shift" -> [self EXCEPT !.shift = is_keydown(press_state)]
      [] key_press.kind = "Super" -> [self EXCEPT !.sup = is_keydown(press_state)]
      [] OTHER -> self

\* the Modifiers value App::new constructs
NoModifiers == [ctrl |-> FALSE, shift |-> FALSE, alt |-> FALSE, sup |-> FALSE]

C5_is_same_key_chord_mut(a, b) == a.key_s = b.key_s

is_same_key_chord(a, b) == a.key_s = b.key_s /\ a.modifiers = b.modifiers

C15_render_item_mut(item, count) ==
    LET count_str == IF count > 1 THEN "x" \o ToString(count) ELSE ""
        alt_str == IF item.modifiers.alt THEN "Alt + " ELSE ""
        sup_str == IF item.modifiers.sup THEN "Super + " ELSE ""
        ctrl_str == IF item.modifiers.ctrl THEN "Ctrl + " ELSE ""
        shift_str == IF item.modifiers.shift THEN "Shift + " ELSE ""
        modifier_str == ctrl_str \o shift_str \o alt_str \o sup_str
    IN  modifier_str \o item.key_s \o " " \o count_str

render_item(item, count) ==
    LET count_str == IF count > 1 THEN "x" \o ToString(count) ELSE ""
        alt_str == IF item.modifiers.alt THEN "Alt + " ELSE ""
        sup_str == IF item.modifiers.sup THEN "Super + " ELSE ""
        ctrl_str == IF item.modifiers.ctrl THEN "Ctrl + " ELSE ""
        shift_str == IF item.modifiers.shift THEN "Shift + " ELSE ""
        modifier_str == alt_str \o sup_str \o ctrl_str \o shift_str
    IN  modifier_str \o item.key_s \o " " \o count_str

\* the for loop of render_keycodes; i is the index enumerate() yields next,
\* the item it yields with it is key_history[i + 1]
RECURSIVE render_loop(_, _, _, _, _, _)
render_loop(key_history, i, ret, last_item, last_item_count, last_elem_idx) ==
    IF i >= Len(key_history)
    THEN [ret |-> Append(ret, render_item(last_item, last_item_count)),
          last_elem_idx |-> last_elem_idx]
    ELSE IF Len(ret) > MAX_LINES
    THEN [ret |-> ret, last_elem_idx |-> i]
    ELSE LET item == key_history[i + 1]
         IN  IF is_same_key_chord(item, last_item)
             THEN render_loop(key_history, i + 1, ret, item, last_item_count + 1, i)
             ELSE render_loop(key_history, i + 1,
                              Append(ret, render_item(last_item, last_item_count)),
                              item, 1, i)

\* key_history is the history newest first; the result is (ret, last_elem_idx)
render_keycodes(key_history) ==
    IF key_history = <<>>
    THEN [ret |-> <<>>, last_elem_idx |-> 0]
    ELSE render_loop(key_history, 1, <<>>, key_history[1], 1, 1)

C7_prune_count_mut(last_used_elem, len) ==
    IF len > last_used_elem THEN len - last_used_elem ELSE 0

C18_prune_count_mut(last_used_elem, len) == len - 1

C19_prune_count_mut(last_used_elem, len) ==
    IF len - 2 > last_used_elem THEN len - 2 - last_used_elem ELSE 0

\* the number of pop_front calls of `for _ in last_used_elem..len - 1`
prune_count(last_used_elem, len) ==
    IF len - 1 > last_used_elem THEN len - 1 - last_used_elem ELSE 0

C17_pop_front_n_mut(deque, n) == SubSeq(deque, 1, Len(deque) - n)

\* n times VecDeque::pop_front
pop_front_n(deque, n) == SubSeq(deque, n + 1, Len(deque))

(* ------------------------------- state -------------------------------- *)

VARIABLES
    \* reader_thread
    rpc,                    \* the reader thread's position
    has_ctx,                \* ctx, the egui::Context received at line 115
    file_open,              \* f, the device file opened at line 117
    event,                  \* the record read in the current loop iteration
    read_log,               \* every record read_exact has returned, in order
    repaint_pending,        \* ctx.request_repaint() called and not yet served
    \* channels of main
    context_chan,           \* contexts in flight on (context_tx, context_rx)
    context_sends,          \* number of sends on context_tx
    keycode_chan,           \* events in flight on (keycode_tx, keycode_rx)
    \* App
    upc,                    \* the update context's position
    pressed_keycodes,
    rendered_keycodes,
    current_modifier_state,
    last_used_elem,         \* the index the last render_keycodes call returned
    render_passes,          \* number of render_keycodes calls so far
    full_history,           \* every chord ever pushed, none pruned
    processed,              \* every event try_recv has returned, in order
    tick_drained,           \* the events try_recv returned in the current update()
    tick_renders,           \* the render_keycodes calls of the current update()
    \* the typist of SpecTyping
    pattern,                \* the key events typed, over and over
    pos,                    \* the index in pattern of the next event typed
    \* main
    main_pc,                \* the main thread's position
    \* Xkb
    xkb_state,              \* the keycodes of the Shift keys xkb_state holds down
    xkb_log                 \* the keycodes pushed, with the syms and results

reader_vars == <<rpc, has_ctx, file_open, event, read_log, repaint_pending>>
chan_vars == <<context_chan, context_sends, keycode_chan>>
app_vars == <<pressed_keycodes, rendered_keycodes, current_modifier_state,
              last_used_elem, render_passes, full_history>>
tick_vars == <<upc, processed, tick_drained, tick_renders>>
typist_vars == <<pattern, pos>>
main_vars == <<main_pc>>
xkb_vars == <<xkb_state, xkb_log>>
vars == <<reader_vars, chan_vars, app_vars, tick_vars, typist_vars, main_vars,
         xkb_vars>>

(* ------------------------------- inputs ------------------------------- *)

\* the scancodes the modelled keyboard sends
KeyCodes == {KEY_LEFTCTRL, KEY_A, KEY_S, KEY_LEFTSHIFT}
\* the values of its key records: release, press, autorepeat
KeyValues == {UP, DOWN, AUTOREPEAT}
\* input_event, without its timestamp
KeyRecords == [type_ : {EV_KEY}, code : KeyCodes, value : KeyValues]
\* a record of another class (EV_SYN, type 0), as the device sends after each
\* key record
SynRecord == [type_ |-> 0, code |-> 0, value |-> 0]

\* MaybeUninit::<input_event>::uninit(): the record before read_exact has
\* filled it; it is never looked at
Uninit == [type_ |-> 0, code |-> 0, value |-> 0]

Key(code, value) == [type_ |-> EV_KEY, code |-> code, value |-> value]

(* ---------------------- App::process_input_event ---------------------- *)

\* the chord pushed for a keydown of a non-modifier key
KeyHistoryItem(key_s, modifiers) == [key_s |-> key_s, modifiers |-> modifiers]

process_input_event(ev) ==
    LET press_state == event_press_state(ev)
        keypress == from_code(ev.code)
        modifier_state == Modifiers_update(current_modifier_state, keypress, press_state)
    IN  IF press_state = None
        THEN UNCHANGED <<pressed_keycodes, rendered_keycodes, current_modifier_state,
                         last_used_elem, render_passes, full_history>>
        ELSE /\ current_modifier_state' = modifier_state
             /\ IF keypress.kind = "Other" /\ is_keydown(press_state)
                THEN LET pushed == Append(pressed_keycodes,
                                          KeyHistoryItem(keypress.s, modifier_state))
                         rendered == render_keycodes(Reverse(pushed))
                     IN  /\ rendered_keycodes' = rendered.ret
                         /\ last_used_elem' = rendered.last_elem_idx
                         /\ pressed_keycodes' =
                                pop_front_n(pushed, prune_count(rendered.last_elem_idx,
                                                                Len(pushed)))
                         /\ render_passes' = render_passes + 1
                         /\ full_history' =
                                Append(full_history,
                                       KeyHistoryItem(keypress.s, modifier_state))
                ELSE UNCHANGED <<pressed_keycodes, rendered_keycodes,
                                 last_used_elem, render_passes, full_history>>

(* ------------------------------ App state ----------------------------- *)

\* App::new's fields, and the bookkeeping of the model
AppInit ==
    /\ pressed_keycodes = <<>>
    /\ rendered_keycodes = <<>>
    /\ current_modifier_state = NoModifiers
    /\ last_used_elem = 0
    /\ render_passes = 0
    /\ full_history = <<>>

(* ------------- Spec: reader thread, channels, update context ---------- *)

Init ==
    /\ rpc = "recv_ctx"
    /\ has_ctx = FALSE
    /\ file_open = FALSE
    /\ event = Uninit
    /\ read_log = <<>>
    /\ repaint_pending = FALSE
    /\ context_chan = 0
    /\ context_sends = 0
    /\ keycode_chan = <<>>
    /\ upc = "new"
    /\ AppInit
    /\ processed = <<>>
    /\ tick_drained = <<>>
    /\ tick_renders = 0
    /\ pattern = <<>>
    /\ pos = 0
    /\ main_pc = "run_native"
    /\ xkb_state = {}
    /\ xkb_log = <<>>

C10_recv_ready_mut == TRUE

\* rx.recv() of line 115 returns once a context is in the channel
recv_ready == context_chan > 0

\* let ctx = rx.recv().unwrap()
ReaderRecvCtx ==
    /\ rpc = "recv_ctx"
    /\ recv_ready
    /\ context_chan' = IF context_chan > 0 THEN context_chan - 1 ELSE 0
    /\ has_ctx' = TRUE
    /\ rpc' = "open"
    /\ UNCHANGED <<file_open, event, read_log, repaint_pending, context_sends,
                   keycode_chan, app_vars, tick_vars, typist_vars, xkb_vars, main_vars>>

\* File::open(event_input_path).unwrap(), the file opens
ReaderOpen ==
    /\ rpc = "open"
    /\ file_open' = TRUE
    /\ rpc' = "read"
    /\ UNCHANGED <<has_ctx, event, read_log, repaint_pending, chan_vars,
                   app_vars, tick_vars, typist_vars, xkb_vars, main_vars>>

\* File::open(event_input_path).unwrap(), the open fails and unwrap panics
ReaderOpenFail ==
    /\ rpc = "open"
    /\ rpc' = "panicked"
    /\ UNCHANGED <<has_ctx, file_open, event, read_log, repaint_pending, chan_vars,
                   app_vars, tick_vars, typist_vars, xkb_vars, main_vars>>

C9_is_key_class_mut(r) == TRUE

\* if event.type_ != EV_KEY { continue; }
is_key_class(r) == r.type_ = EV_KEY

\* read_exact fills the record with one of the given records; a record of
\* another type is skipped (continue)
ReaderReadOf(records) ==
    /\ rpc = "read"
    /\ Len(read_log) < MaxRecords
    /\ \E r \in records :
          /\ read_log' = Append(read_log, r)
          /\ IF ~is_key_class(r)
             THEN /\ rpc' = "read"
                  /\ UNCHANGED event
             ELSE /\ rpc' = "send"
                  /\ event' = r
    /\ UNCHANGED <<has_ctx, file_open, repaint_pending, chan_vars,
                   app_vars, tick_vars, typist_vars, xkb_vars, main_vars>>

\* the loop iteration of a keyboard that sends any of KeyRecords
ReaderRead == ReaderReadOf(KeyRecords \cup {SynRecord})

C12_ReaderReadFail_mut ==
    /\ rpc = "read"
    /\ rpc' = "send"
    /\ event' = Key(KEY_A, DOWN)
    /\ UNCHANGED <<has_ctx, file_open, read_log, repaint_pending, chan_vars,
                   app_vars, tick_vars, typist_vars, xkb_vars, main_vars>>

\* read_exact returns an error (a short record included) and unwrap panics
ReaderReadFail ==
    /\ rpc = "read"
    /\ rpc' = "panicked"
    /\ UNCHANGED <<has_ctx, file_open, event, read_log, repaint_pending, chan_vars,
                   app_vars, tick_vars, typist_vars, xkb_vars, main_vars>>

\* the Receiver of the keycode channel lives in App until App is dropped
rx_alive == upc # "dropped"

\* tx.send(event).unwrap(), the receiver is there
ReaderSend ==
    /\ rpc = "send"
    /\ rx_alive
    /\ keycode_chan' = Append(keycode_chan, event)
    /\ rpc' = "repaint"
    /\ UNCHANGED <<has_ctx, file_open, event, read_log, repaint_pending,
                   context_chan, context_sends, app_vars, tick_vars,
                   typist_vars, xkb_vars, main_vars>>

C13_ReaderSendFail_mut ==
    /\ rpc = "send"
    /\ ~rx_alive
    /\ rpc' = "read"
    /\ UNCHANGED <<has_ctx, file_open, event, read_log, repaint_pending, chan_vars,
                   app_vars, tick_vars, typist_vars, xkb_vars, main_vars>>

\* tx.send(event).unwrap(), the receiver is gone: send returns Err and
\* unwrap panics
ReaderSendFail ==
    /\ rpc = "send"
    /\ ~rx_alive
    /\ rpc' = "panicked"
    /\ UNCHANGED <<has_ctx, file_open, event, read_log, repaint_pending, chan_vars,
                   app_vars, tick_vars, typist_vars, xkb_vars, main_vars>>

C11_ReaderRepaint_mut ==
    /\ rpc = "repaint"
    /\ rpc' = "read"
    /\ UNCHANGED <<has_ctx, file_open, event, read_log, repaint_pending, chan_vars,
                   app_vars, tick_vars, typist_vars, xkb_vars, main_vars>>

\* ctx.request_repaint()
ReaderRepaint ==
    /\ rpc = "repaint"
    /\ repaint_pending' = TRUE
    /\ rpc' = "read"
    /\ UNCHANGED <<has_ctx, file_open, event, read_log, chan_vars,
                   app_vars, tick_vars, typist_vars, xkb_vars, main_vars>>

\* App::new, called once by eframe::run_native
AppNew ==
    /\ upc = "new"
    /\ context_chan' = context_chan + 1
    /\ context_sends' = context_sends + 1
    /\ upc' = "ready"
    /\ UNCHANGED <<reader_vars, keycode_chan, app_vars, processed, tick_drained,
                   tick_renders, typist_vars, xkb_vars, main_vars>>

\* eframe calls App::update: a display tick starts
UpdateBegin ==
    /\ upc \in {"ready", "drawn"}
    /\ upc' = "drain"
    /\ tick_drained' = <<>>
    /\ tick_renders' = 0
    /\ repaint_pending' = FALSE
    /\ UNCHANGED <<rpc, has_ctx, file_open, event, read_log, chan_vars,
                   app_vars, processed, typist_vars, xkb_vars, main_vars>>

\* while let Ok(event) = self.rx.try_recv() { self.process_input_event(&event) }
UpdateRecv ==
    /\ upc = "drain"
    /\ keycode_chan # <<>>
    /\ process_input_event(Head(keycode_chan))
    /\ keycode_chan' = Tail(keycode_chan)
    /\ processed' = Append(processed, Head(keycode_chan))
    /\ tick_drained' = Append(tick_drained, Head(keycode_chan))
    /\ tick_renders' = tick_renders + (render_passes' - render_passes)
    /\ UNCHANGED <<reader_vars, context_chan, context_sends, upc,
                   typist_vars, xkb_vars, main_vars>>

C8_UpdateDraw_mut ==
    /\ upc = "drain"
    /\ upc' = "drawn"
    /\ UNCHANGED <<reader_vars, chan_vars, app_vars, processed, tick_drained,
                   tick_renders, typist_vars, xkb_vars, main_vars>>

\* try_recv returns Err(Empty): the loop ends and rendered_keycodes is drawn
UpdateDraw ==
    /\ upc = "drain"
    /\ keycode_chan = <<>>
    /\ upc' = "drawn"
    /\ UNCHANGED <<reader_vars, chan_vars, app_vars, processed, tick_drained,
                   tick_renders, typist_vars, xkb_vars, main_vars>>

Next ==
    \/ ReaderRecvCtx
    \/ ReaderOpen
    \/ ReaderOpenFail
    \/ ReaderRead
    \/ ReaderReadFail
    \/ ReaderSend
    \/ ReaderRepaint
    \/ AppNew
    \/ UpdateBegin
    \/ UpdateRecv
    \/ UpdateDraw

Spec == Init /\ [][Next]_vars

(* ---------- SpecLive: Spec with the scheduling of the threads --------- *)

\* the records of a keyboard with one key, and the record of another class
LiveRecords == {Key(KEY_A, DOWN), Key(KEY_A, UP), SynRecord}

ReaderReadLive == ReaderReadOf(LiveRecords)

LiveNext ==
    \/ ReaderRecvCtx
    \/ ReaderOpen
    \/ ReaderOpenFail
    \/ ReaderReadLive
    \/ ReaderReadFail
    \/ ReaderSend
    \/ ReaderRepaint
    \/ AppNew
    \/ UpdateBegin
    \/ UpdateRecv
    \/ UpdateDraw

\* the reader thread is scheduled between send and request_repaint, a
\* requested repaint makes eframe call App::update, and App::update runs to
\* its end
LiveFairness ==
    /\ WF_vars(ReaderRepaint)
    /\ WF_vars(UpdateBegin /\ repaint_pending)
    /\ WF_vars(UpdateRecv)
    /\ WF_vars(UpdateDraw)

SpecLive == Init /\ [][LiveNext]_vars /\ LiveFairness

(* ------- SpecShutdown: SpecLive with the end of eframe::run_native ----- *)

\* the window closes: run_native drops App, and the Receiver in it, and
\* returns to main
AppDrop ==
    /\ main_pc = "run_native"
    /\ upc \in {"ready", "drawn"}
    /\ upc' = "dropped"
    /\ main_pc' = "returned"
    /\ UNCHANGED <<reader_vars, chan_vars, app_vars, processed, tick_drained,
                   tick_renders, typist_vars, xkb_vars>>

\* main returns and the process exits, the reader thread with it
MainExit ==
    /\ main_pc = "returned"
    /\ main_pc' = "exited"
    /\ UNCHANGED <<reader_vars, chan_vars, app_vars, tick_vars, typist_vars, xkb_vars>>

ShutdownNext ==
    \/ main_pc # "exited" /\ ReaderRecvCtx
    \/ main_pc # "exited" /\ ReaderOpen
    \/ main_pc # "exited" /\ ReaderOpenFail
    \/ main_pc # "exited" /\ ReaderReadLive
    \/ main_pc # "exited" /\ ReaderReadFail
    \/ main_pc # "exited" /\ ReaderSend
    \/ main_pc # "exited" /\ ReaderSendFail
    \/ main_pc # "exited" /\ ReaderRepaint
    \/ AppNew
    \/ UpdateBegin
    \/ UpdateRecv
    \/ UpdateDraw
    \/ AppDrop
    \/ MainExit

\* main, once run_native has returned, runs to its end
SpecShutdown == Init /\ [][ShutdownNext]_vars /\ WF_vars(MainExit)

(* ------- SpecTyping: process_input_event on a typed key stream -------- *)

\* every sequence of 1..n typed events
RECURSIVE PatternsUpTo(_)
PatternsUpTo(n) ==
    IF n = 0 THEN {}
    ELSE PatternsUpTo(n - 1) \cup [1..n -> KeyRecords]

\* Shift-Down, a-Down, a-Up, Shift-Up, a-Down, a-Up
ShiftThenPlain ==
    << Key(KEY_LEFTSHIFT, DOWN), Key(KEY_A, DOWN), Key(KEY_A, UP),
       Key(KEY_LEFTSHIFT, UP), Key(KEY_A, DOWN), Key(KEY_A, UP) >>

\* the same key alternately with and without Shift
ShiftEveryOther ==
    << Key(KEY_LEFTSHIFT, DOWN), Key(KEY_A, DOWN),
       Key(KEY_LEFTSHIFT, UP), Key(KEY_A, DOWN) >>

\* runs of two equal chords
PairsOfTaps ==
    << Key(KEY_A, DOWN), Key(KEY_A, UP), Key(KEY_A, DOWN), Key(KEY_A, UP),
       Key(KEY_S, DOWN), Key(KEY_S, UP), Key(KEY_S, DOWN), Key(KEY_S, UP) >>

\* a key code_to_str does not know, tapped, then the key A, tapped
UnmappedThenA ==
    << Key(KEY_PAGEUP, DOWN), Key(KEY_PAGEUP, UP), Key(KEY_A, DOWN), Key(KEY_A, UP) >>

\* the four modifiers go down and stay down, then the key A is tapped
AllModifiersChord ==
    << Key(KEY_LEFTALT, DOWN), Key(KEY_LEFTMETA, DOWN), Key(KEY_LEFTCTRL, DOWN),
       Key(KEY_LEFTSHIFT, DOWN), Key(KEY_A, DOWN), Key(KEY_A, UP) >>

\* both Shift keys go down, the left one goes up, the key A is tapped, the
\* right one goes up
BothShifts ==
    << Key(KEY_LEFTSHIFT, DOWN), Key(KEY_RIGHTSHIFT, DOWN), Key(KEY_LEFTSHIFT, UP),
       Key(KEY_A, DOWN), Key(KEY_A, UP), Key(KEY_RIGHTSHIFT, UP) >>

Patterns ==
    PatternsUpTo(MaxPattern)
        \cup {ShiftThenPlain, ShiftEveryOther, PairsOfTaps,
              UnmappedThenA, AllModifiersChord, BothShifts}

TypingInit ==
    /\ rpc = "read"
    /\ has_ctx = TRUE
    /\ file_open = TRUE
    /\ event = Uninit
    /\ read_log = <<>>
    /\ repaint_pending = FALSE
    /\ context_chan = 0
    /\ context_sends = 1
    /\ keycode_chan = <<>>
    /\ upc = "drain"
    /\ AppInit
    /\ processed = <<>>
    /\ tick_drained = <<>>
    /\ tick_renders = 0
    /\ pattern \in Patterns
    /\ pos = 1
    /\ main_pc = "run_native"
    /\ xkb_state = {}
    /\ xkb_log = <<>>

\* the next event of the pattern reaches process_input_event; the typist
\* presses no further key once MaxKeydowns render passes have run
TypeKey ==
    /\ render_passes < MaxKeydowns \/ pattern[pos].value # DOWN
    /\ process_input_event(pattern[pos])
    /\ pos' = (pos % Len(pattern)) + 1
    /\ UNCHANGED <<reader_vars, chan_vars, tick_vars, pattern, main_vars, xkb_vars>>

TypingNext == TypeKey

SpecTyping == TypingInit /\ [][TypingNext]_vars

(* ------------- SpecXkb: Xkb::push_keycode on pushed keycodes ---------- *)

\* Option<KeyPress>::None
NoKeyPress == [kind |-> "None", s |-> ""]

\* the keymap create_keymap compiles: the two levels of each key of a pc
\* keyboard with the us layout, by xkb keycode
Keymap(xkb_code) ==
    CASE xkb_code = KEY_LEFTCTRL + EVDEV_OFFSET -> << XKB_KEY_Control_L, XKB_KEY_Control_L >>
      [] xkb_code = KEY_RIGHTCTRL + EVDEV_OFFSET -> << XKB_KEY_Control_R, XKB_KEY_Control_R >>
      [] xkb_code = KEY_LEFTSHIFT + EVDEV_OFFSET -> << XKB_KEY_Shift_L, XKB_KEY_Shift_L >>
      [] xkb_code = KEY_RIGHTSHIFT + EVDEV_OFFSET -> << XKB_KEY_Shift_R, XKB_KEY_Shift_R >>
      [] xkb_code = KEY_LEFTALT + EVDEV_OFFSET -> << XKB_KEY_Alt_L, XKB_KEY_Meta_L >>
      [] xkb_code = KEY_RIGHTALT + EVDEV_OFFSET -> << XKB_KEY_Alt_R, XKB_KEY_Meta_R >>
      [] xkb_code = KEY_LEFTMETA + EVDEV_OFFSET -> << XKB_KEY_Super_L, XKB_KEY_Super_L >>
      [] xkb_code = KEY_RIGHTMETA + EVDEV_OFFSET -> << XKB_KEY_Super_R, XKB_KEY_Super_R >>
      [] xkb_code = KEY_A + EVDEV_OFFSET -> << XKB_KEY_a, XKB_KEY_A >>
      [] xkb_code = KEY_ESC + EVDEV_OFFSET -> << XKB_KEY_Escape, XKB_KEY_Escape >>
      [] xkb_code = KEY_ENTER + EVDEV_OFFSET -> << XKB_KEY_Return, XKB_KEY_Return >>
      [] OTHER -> << XKB_KEY_NoSymbol, XKB_KEY_NoSymbol >>

\* xkb_keysym_get_name: the name of a keysym, None where it returns -1
xkb_keysym_get_name(sym) ==
    CASE sym = XKB_KEY_Control_L -> "Control_L"
      [] sym = XKB_KEY_Control_R -> "Control_R"
      [] sym = XKB_KEY_Shift_L -> "Shift_L"
      [] sym = XKB_KEY_Shift_R -> "Shift_R"
      [] sym = XKB_KEY_Alt_L -> "Alt_L"
      [] sym = XKB_KEY_Alt_R -> "Alt_R"
      [] sym = XKB_KEY_Meta_L -> "Meta_L"
      [] sym = XKB_KEY_Meta_R -> "Meta_R"
      [] sym = XKB_KEY_Super_L -> "Super_L"
      [] sym = XKB_KEY_Super_R -> "Super_R"
      [] sym = XKB_KEY_Escape -> "Escape"
      [] sym = XKB_KEY_Delete -> "Delete"
      [] sym = XKB_KEY_BackSpace -> "BackSpace"
      [] sym = XKB_KEY_Return -> "Return"
      [] sym = XKB_KEY_a -> "a"
      [] sym = XKB_KEY_A -> "A"
      [] sym = XKB_KEY_NoSymbol -> "NoSymbol"
      [] OTHER -> None

\* xkb_keysym_to_utf8: the character of a keysym, None where it returns 0;
\* keysym_to_string does not call it for Escape, Delete and BackSpace
xkb_keysym_to_utf8(sym) ==
    CASE sym = XKB_KEY_a -> "a"
      [] sym = XKB_KEY_A -> "A"
      [] sym = XKB_KEY_Return -> "\r"
      [] OTHER -> None

\* name.trim().is_empty(), for the one-character strings xkb_keysym_to_utf8
\* returns
trim_is_empty(name) == name \in {"", " ", "\t", "\n", "\r", "\f"}

keysym_to_keyname(sym) == xkb_keysym_get_name(sym)

keysym_to_utf8_name(sym) == xkb_keysym_to_utf8(sym)

is_unprintable(sym) == sym \in {XKB_KEY_Escape, XKB_KEY_Delete, XKB_KEY_BackSpace}

keysym_to_string(sym) ==
    IF is_unprintable(sym)
    THEN keysym_to_keyname(sym)
    ELSE LET utf_name == keysym_to_utf8_name(sym)
         IN  IF utf_name # None /\ ~trim_is_empty(utf_name)
             THEN utf_name
             ELSE keysym_to_keyname(sym)

keysym_to_keypress(sym) ==
    CASE sym \in {XKB_KEY_Control_L, XKB_KEY_Control_R} -> [kind |-> "Ctrl", s |-> ""]
      [] sym \in {XKB_KEY_Shift_L, XKB_KEY_Shift_R} -> [kind |-> "Shift", s |-> ""]
      [] sym \in {XKB_KEY_Alt_L, XKB_KEY_Alt_R} -> [kind |-> "Alt", s |-> ""]
      [] sym \in {XKB_KEY_Meta_L, XKB_KEY_Meta_R} -> [kind |-> "Super", s |-> ""]
      [] OTHER -> IF keysym_to_string(sym) = None
                  THEN NoKeyPress
                  ELSE [kind |-> "Other", s |-> keysym_to_string(sym)]

evdev_code_to_xkb_code(code) == code + EVDEV_OFFSET

\* xkb_state_update_key: a Shift key that goes down is held, one that goes
\* up is released
update_xkb_state(state, xkb_code, press_state) ==
    IF Keymap(xkb_code)[1] \in {XKB_KEY_Shift_L, XKB_KEY_Shift_R}
    THEN IF press_state = "Down" THEN state \cup {xkb_code} ELSE state \ {xkb_code}
    ELSE state

\* xkb_state_key_get_one_sym: the second level of the key while Shift is held
xkb_state_key_get_one_sym(state, xkb_code) ==
    Keymap(xkb_code)[IF state = {} THEN 1 ELSE 2]

\* the scancodes pushed
XkbKeycodes ==
    {KEY_LEFTCTRL, KEY_LEFTSHIFT, KEY_RIGHTSHIFT, KEY_LEFTALT, KEY_LEFTMETA,
     KEY_RIGHTMETA, KEY_A, KEY_ESC, KEY_ENTER, KEY_PAGEUP}

XkbInit ==
    /\ Init

\* Xkb::push_keycode
push_keycode(keycode, press_state) ==
    LET xkb_code == evdev_code_to_xkb_code(keycode)
        state == update_xkb_state(xkb_state, xkb_code, press_state)
        sym == xkb_state_key_get_one_sym(state, xkb_code)
    IN  /\ xkb_state' = state
        /\ xkb_log' = Append(xkb_log, [keycode |-> keycode, press_state |-> press_state,
                                       sym |-> sym, keypress |-> keysym_to_keypress(sym)])

PushKeycode ==
    /\ Len(xkb_log) < MaxPushes
    /\ \E keycode \in XkbKeycodes, press_state \in {"Down", "Up"} :
          push_keycode(keycode, press_state)
    /\ UNCHANGED <<reader_vars, chan_vars, app_vars, tick_vars, typist_vars, main_vars>>

XkbNext == PushKeycode

SpecXkb == XkbInit /\ [][XkbNext]_vars

(* ------------------------------- claims ------------------------------- *)

Last(s) == s[Len(s)]

IsPrefix(s, t) == Len(s) <= Len(t) /\ SubSeq(t, 1, Len(s)) = s

\* the event TypeKey hands to process_input_event in the current state
Typed == pattern[pos]

\* a keydown of a key that is none of the eight modifier keys
IsSymbolDown(ev) ==
    /\ ev.value = DOWN
    /\ ev.code \notin {KEY_LEFTCTRL, KEY_RIGHTCTRL, KEY_LEFTSHIFT, KEY_RIGHTSHIFT,
                       KEY_LEFTALT, KEY_RIGHTALT, KEY_LEFTMETA, KEY_RIGHTMETA}

\* the runs of equal chords of a chronological history, newest run first
RECURSIVE RunsOf(_)
RunsOf(h) ==
    IF h = <<>> THEN <<>>
    ELSE LET older == RunsOf(SubSeq(h, 1, Len(h) - 1))
             c == Last(h)
         IN  IF older # <<>> /\ older[1].chord = c
             THEN <<[chord |-> c, count |-> older[1].count + 1]>> \o Tail(older)
             ELSE <<[chord |-> c, count |-> 1]>> \o older

\* C1: after any sequence of key events the rendered list never holds more
\* than 40 (MAX_LINES) groups.
C1_AtMostMaxLines == Len(rendered_keycodes) <= MAX_LINES

\* the keys of one modifier kind
ModifierKeys(kind) ==
    CASE kind = "Ctrl" -> {KEY_LEFTCTRL, KEY_RIGHTCTRL}
      [] kind = "Shift" -> {KEY_LEFTSHIFT, KEY_RIGHTSHIFT}
      [] kind = "Alt" -> {KEY_LEFTALT, KEY_RIGHTALT}
      [] kind = "Super" -> {KEY_LEFTMETA, KEY_RIGHTMETA}

\* the Down/Up transitions of the keys of a kind among the processed events
Transitions(kind) ==
    {i \in 1..Len(processed) :
        processed[i].code \in ModifierKeys(kind) /\ processed[i].value \in {UP, DOWN}}

\* TRUE iff the most recent transition of the kind was Down
LastWasDown(kind) ==
    /\ Transitions(kind) # {}
    /\ processed[CHOOSE i \in Transitions(kind) :
                     \A j \in Transitions(kind) : j <= i].value = DOWN

\* C2: each ModifierState bit is true iff the most recent Down/Up transition
\* of a modifier key of its kind was Down (false if there was none); events
\* of other keys do not count.
C2_ModifierStateIsLastTransition ==
    /\ current_modifier_state.ctrl = LastWasDown("Ctrl")
    /\ current_modifier_state.shift = LastWasDown("Shift")
    /\ current_modifier_state.alt = LastWasDown("Alt")
    /\ current_modifier_state.sup = LastWasDown("Super")

\* Shift went down and is held, and a non-modifier key went down meanwhile
C2_Witness ==
    /\ Len(processed) = MaxRecords
    /\ current_modifier_state.shift
    /\ \E i \in 1..Len(processed) : IsSymbolDown(processed[i])
    /\ \E i \in 1..Len(processed) :
          processed[i].code = KEY_LEFTSHIFT /\ processed[i].value = DOWN

\* C3: pressed_keycodes gains an entry only when a Down event of a
\* non-modifier key is processed, and then exactly one entry, at the tail,
\* carrying the symbol and the modifier state of that instant (older entries
\* may be pruned in the same step); every other event leaves it as it was.
C3_AppendOnlyOnSymbolDown ==
    [][ IF IsSymbolDown(Typed)
        THEN LET chord == KeyHistoryItem(code_to_str(Typed.code), current_modifier_state)
                 pushed == Append(pressed_keycodes, chord)
             IN  /\ pressed_keycodes' # <<>>
                 /\ Last(pressed_keycodes') = chord
                 /\ \E k \in 0..Len(pressed_keycodes) :
                       pressed_keycodes' = SubSeq(pushed, k + 1, Len(pushed))
                 /\ current_modifier_state' = current_modifier_state
        ELSE pressed_keycodes' = pressed_keycodes ]_vars

\* a chord typed with Shift held is in the history, and the event before
\* the next one was a key release
C3_Witness ==
    /\ pressed_keycodes # <<>>
    /\ Last(pressed_keycodes).modifiers.shift
    /\ render_passes >= 2
    /\ pattern[IF pos = 1 THEN Len(pattern) ELSE pos - 1].value = UP

\* C4: the same chord typed N times in a row from an empty history is
\* rendered as one group of count N; the rendered groups are the runs of
\* equal chords of the history, the newest run first.
C4_RunsCollapseNewestFirst ==
    /\ ( /\ pressed_keycodes # <<>>
         /\ \A i \in 1..Len(pressed_keycodes) : pressed_keycodes[i] = pressed_keycodes[1]
         /\ render_passes = Len(pressed_keycodes) )
       => rendered_keycodes =
              << render_item(pressed_keycodes[1], Len(pressed_keycodes)) >>
    /\ LET runs == RunsOf(pressed_keycodes)
       IN  /\ Len(rendered_keycodes) <= Len(runs)
           /\ \A k \in 1..Len(rendered_keycodes) :
                 rendered_keycodes[k] = render_item(runs[k].chord, runs[k].count)

\* the key A tapped (Down, Up) MaxKeydowns times
C4_Witness ==
    /\ pattern = << Key(KEY_A, DOWN), Key(KEY_A, UP) >>
    /\ pos = 1
    /\ Len(pressed_keycodes) = MaxKeydowns
    /\ rendered_keycodes = << render_item(KeyHistoryItem("A", NoModifiers), MaxKeydowns) >>

\* C5: Shift-Down, a-Down, a-Up, Shift-Up, a-Down, a-Up from an empty history
\* renders two groups of count 1: the unmodified a, then Shift + a.
C5_ShiftThenPlainRendersTwoGroups ==
    (pattern = ShiftThenPlain /\ pos = 1 /\ render_passes = 2)
    => rendered_keycodes =
          << render_item(KeyHistoryItem("A", NoModifiers), 1),
             render_item(KeyHistoryItem("A", [NoModifiers EXCEPT !.shift = TRUE]), 1) >>

C5_Witness ==
    /\ pattern = ShiftThenPlain
    /\ pos = 1
    /\ render_passes = 2
    /\ Len(rendered_keycodes) = 2
    /\ Len(pressed_keycodes) = 2

\* C6: an event whose value is neither 0 (Up) nor 1 (Down), autorepeat
\* (value 2) included, changes neither pressed_keycodes nor the modifier
\* state nor rendered_keycodes, whatever its key.
C6_OtherValuesAreDropped ==
    [][ Typed.value \notin {UP, DOWN}
        => UNCHANGED <<pressed_keycodes, current_modifier_state, rendered_keycodes>> ]_vars

\* an autorepeat record of the held key A has just been processed
C6_Witness ==
    /\ pattern = << Key(KEY_A, DOWN), Key(KEY_A, AUTOREPEAT) >>
    /\ pos = 1
    /\ render_passes >= 1

\* C7: after a render pass and its pruning, pressed_keycodes holds the
\* newest entries up to the index render_keycodes returned and nothing
\* older: last_used_elem + 1 entries when the pass stopped before the oldest
\* entry, all of them when the pass examined the whole buffer.
C7_PruneKeepsUpToLastUsedElem ==
    [][ IsSymbolDown(Typed)
        => LET chord == KeyHistoryItem(code_to_str(Typed.code), current_modifier_state)
               pushed == Append(pressed_keycodes, chord)
               len == Len(pushed)
           IN  IF last_used_elem' < len - 1
               THEN /\ Len(pressed_keycodes') = last_used_elem' + 1
                    /\ pressed_keycodes' = SubSeq(pushed, len - last_used_elem', len)
               ELSE pressed_keycodes' = pushed ]_vars

\* the last render pass stopped early and older entries were pruned
C7_Witness ==
    /\ Len(pressed_keycodes) = last_used_elem + 1
    /\ Len(pressed_keycodes) < render_passes
    /\ Len(rendered_keycodes) = MAX_LINES + 1

\* the number of keydowns of non-modifier keys in a sequence of events
RECURSIVE CountSymbolDowns(_)
CountSymbolDowns(evs) ==
    IF evs = <<>> THEN 0
    ELSE (IF IsSymbolDown(Head(evs)) THEN 1 ELSE 0) + CountSymbolDowns(Tail(evs))

\* C8 as stated: every display tick performs exactly one render pass.
C8_OneRenderPassPerTick == (upc = "drawn") => tick_renders = 1

\* C8 (amended): a display tick ends only when the channel is empty, and it
\* has performed one render pass per drained keydown of a non-modifier key.
C8_RenderPassPerDrainedKeydown ==
    [][ (upc = "drain" /\ upc' = "drawn")
        => /\ keycode_chan = <<>>
           /\ tick_renders' = CountSymbolDowns(tick_drained')
           /\ render_passes' = CountSymbolDowns(processed') ]_vars

\* a tick that drained two keydowns and rendered twice
C8_Witness ==
    /\ upc = "drawn"
    /\ Len(tick_drained) >= 2
    /\ tick_renders = 2

\* the key-class records of a sequence of records
KeyClass(records) == SelectSeq(records, LAMBDA r : r.type_ = EV_KEY)

\* the record the reader has read and not yet sent
Unsent == IF rpc = "send" THEN <<event>> ELSE <<>>

\* C9: the events the update context has processed, then those in the
\* channel, then the one being sent, are the key-class records read from the
\* device, in reading order.
C9_ProcessedIsPrefixOfKeyRecordsRead ==
    /\ processed \o keycode_chan \o Unsent = KeyClass(read_log)
    /\ IsPrefix(processed, KeyClass(read_log))

\* two key records were processed, a record of another type was read between
C9_Witness ==
    /\ Len(processed) >= 2
    /\ Len(KeyClass(read_log)) < Len(read_log)

\* C10: the reader opens the device, reads, sends and requests a redraw only
\* after it has received the context the update context sent; the context
\* is sent once, by App::new.
C10_HandshakeBeforeDevice ==
    [][ /\ ( \/ file_open' # file_open
             \/ read_log' # read_log
             \/ Len(keycode_chan') > Len(keycode_chan)
             \/ (repaint_pending' /\ ~repaint_pending) )
           => (has_ctx /\ context_sends = 1)
        /\ has_ctx' => context_sends' = 1
        /\ context_sends' <= 1
        /\ context_sends' # context_sends => (upc = "new" /\ upc' = "ready") ]_vars

\* the reader has the context, has opened the device and sent an event
C10_Witness ==
    /\ has_ctx
    /\ file_open
    /\ context_sends = 1
    /\ repaint_pending

\* the length of the run of equal chords that ends a chronological history
RECURSIVE TrailingRun(_)
TrailingRun(h) ==
    IF h = <<>> THEN 0
    ELSE IF Len(h) >= 2 /\ h[Len(h) - 1] = Last(h)
    THEN 1 + TrailingRun(SubSeq(h, 1, Len(h) - 1))
    ELSE 1

\* C14: a Down event of a scancode code_to_str has no arm for is not dropped:
\* it pushes a chord whose symbol is "UNKNOWN", that chord is the first
\* rendered group, and the keys typed after it are rendered as usual.
C14_UnmappedKeyIsUnknown ==
    [][ (Typed.value = DOWN /\ Typed.code = KEY_PAGEUP)
        => /\ pressed_keycodes' # <<>>
           /\ Last(pressed_keycodes') = KeyHistoryItem("UNKNOWN", current_modifier_state)
           /\ render_passes' = render_passes + 1
           /\ rendered_keycodes' # <<>>
           /\ rendered_keycodes'[1] =
                  render_item(KeyHistoryItem("UNKNOWN", current_modifier_state),
                              TrailingRun(full_history')) ]_vars

\* the unmapped key was tapped, then the key A: both are rendered
C14_Witness ==
    /\ pattern = UnmappedThenA
    /\ pos = 1
    /\ render_passes = 2
    /\ rendered_keycodes =
          << render_item(KeyHistoryItem("A", NoModifiers), 1),
             render_item(KeyHistoryItem("UNKNOWN", NoModifiers), 1) >>

\* the names of the modifiers, in the order they are rendered
ModifierOrder == << "Alt", "Super", "Ctrl", "Shift" >>

IsActive(modifiers, name) ==
    CASE name = "Alt" -> modifiers.alt
      [] name = "Super" -> modifiers.sup
      [] name = "Ctrl" -> modifiers.ctrl
      [] name = "Shift" -> modifiers.shift

\* "<Name> + " for each active modifier, from the n-th name of ModifierOrder on
RECURSIVE ModifierPrefix(_, _)
ModifierPrefix(modifiers, n) ==
    IF n > Len(ModifierOrder) THEN ""
    ELSE (IF IsActive(modifiers, ModifierOrder[n])
          THEN ModifierOrder[n] \o " + " ELSE "")
         \o ModifierPrefix(modifiers, n + 1)

\* the line of a group as the claim words it
LineAsClaimed(chord, count) ==
    ModifierPrefix(chord.modifiers, 1) \o chord.key_s
        \o (IF count > 1 THEN "×" \o ToString(count) ELSE "")

\* the line of a group as render_item formats it
LineAsFormatted(chord, count) ==
    ModifierPrefix(chord.modifiers, 1) \o chord.key_s \o " "
        \o (IF count > 1 THEN "x" \o ToString(count) ELSE "")

\* C15 as stated: every rendered line is the active modifiers in the order
\* Alt, Super, Ctrl, Shift, each as "<Name> + ", then the symbol, then
\* "×<count>" when count > 1 and nothing when count = 1.
C15_LinesAsClaimed ==
    LET runs == RunsOf(pressed_keycodes)
    IN  \A k \in 1..Len(rendered_keycodes) :
           rendered_keycodes[k] = LineAsClaimed(runs[k].chord, runs[k].count)

\* C15 (amended): every rendered line is the active modifiers in the order
\* Alt, Super, Ctrl, Shift, each as "<Name> + ", then the symbol, then one
\* space, then "x<count>" (the letter x) when count > 1 and nothing more
\* when count = 1.
C15_LinesAsFormatted ==
    LET runs == RunsOf(pressed_keycodes)
    IN  \A k \in 1..Len(rendered_keycodes) :
           rendered_keycodes[k] = LineAsFormatted(runs[k].chord, runs[k].count)

\* the key A typed three times with all four modifiers held
C15_Witness ==
    /\ pattern = AllModifiersChord
    /\ render_passes = 3
    /\ rendered_keycodes = << "Alt + Super + Ctrl + Shift + A x3" >>

\* C17: pruning does not show: the rendered list is the list render_keycodes
\* computes from the complete history of all chords ever pushed.
C17_RenderedAsFromFullHistory ==
    rendered_keycodes = render_keycodes(Reverse(full_history)).ret

\* entries were pruned and several render passes ran on the pruned buffer
C17_Witness ==
    /\ Len(full_history) >= Len(pressed_keycodes) + 2
    /\ Len(rendered_keycodes) = MAX_LINES + 1
    /\ rendered_keycodes = render_keycodes(Reverse(pressed_keycodes)).ret

\* C18: a process_input_event that pushes leaves pressed_keycodes non-empty
\* with the pushed chord at its tail; len() - 1 is not negative and fewer
\* entries are popped than the buffer holds; the first rendered line is the
\* run of equal chords that ends with the pushed chord, counted in full.
C18_NewestChordSurvives ==
    [][ IsSymbolDown(Typed)
        => LET chord == KeyHistoryItem(code_to_str(Typed.code), current_modifier_state)
               len == Len(pressed_keycodes) + 1
           IN  /\ len - 1 >= 0
               /\ len - Len(pressed_keycodes') < len
               /\ Len(pressed_keycodes') >= 1
               /\ Last(pressed_keycodes') = chord
               /\ (len = 1 => (last_used_elem' = 1 /\ pressed_keycodes' = <<chord>>))
               /\ rendered_keycodes' # <<>>
               /\ rendered_keycodes'[1] = render_item(chord, TrailingRun(full_history'))
               /\ TrailingRun(pressed_keycodes') = TrailingRun(full_history') ]_vars

\* the first keydown: one entry, render_keycodes returned index 1
C18_Witness ==
    /\ Len(pressed_keycodes) = 1
    /\ render_passes = 1
    /\ last_used_elem = 1
    /\ Len(rendered_keycodes) = 1

\* the longest run of equal chords in a chronological history
LongestRun(h) ==
    LET runs == RunsOf(h)
    IN  IF runs = <<>> THEN 0
        ELSE runs[CHOOSE k \in 1..Len(runs) :
                      \A j \in 1..Len(runs) : runs[j].count <= runs[k].count].count

\* C19: the entries kept in pressed_keycodes span at most 43 (MAX_LINES + 3)
\* runs of equal chords, so its length is at most 43 times its longest run.
C19_AtMost43Runs ==
    /\ Len(RunsOf(pressed_keycodes)) <= MAX_LINES + 3
    /\ Len(pressed_keycodes) <= (MAX_LINES + 3) * LongestRun(pressed_keycodes)

\* 43 runs are kept after a pruning
C19_Witness ==
    /\ Len(RunsOf(pressed_keycodes)) = MAX_LINES + 3
    /\ Len(full_history) > Len(pressed_keycodes)

\* the kind of modifier a scancode is a key of, None for any other key
KindOf(code) ==
    IF \E kind \in {"Ctrl", "Shift", "Alt", "Super"} : code \in ModifierKeys(kind)
    THEN CHOOSE kind \in {"Ctrl", "Shift", "Alt", "Super"} : code \in ModifierKeys(kind)
    ELSE None

\* C20: the left and the right key of a kind write the same bit, the last
\* writer wins: an Up of either key clears the bit whatever the other key
\* does, and with both Shift keys down and the left one released, the chord
\* typed while the right one is still held is recorded without Shift.
C20_LeftRightShareOneBit ==
    [][ /\ (Typed.value = UP /\ KindOf(Typed.code) # None)
           => ~IsActive(current_modifier_state', KindOf(Typed.code))
        /\ (Typed.value = DOWN /\ KindOf(Typed.code) # None)
           => IsActive(current_modifier_state', KindOf(Typed.code))
        /\ (pattern = BothShifts /\ pos = 3)
           => (current_modifier_state.shift /\ ~current_modifier_state'.shift)
        /\ (pattern = BothShifts /\ pos = 4)
           => Last(pressed_keycodes') = KeyHistoryItem("A", NoModifiers) ]_vars

\* the key A was recorded without Shift while the right Shift key was held
C20_Witness ==
    /\ pattern = BothShifts
    /\ pos = 5
    /\ render_passes = 1
    /\ pressed_keycodes = << KeyHistoryItem("A", NoModifiers) >>

\* C11: a forwarded event is followed by the redraw request before the
\* reader reads again, and, a requested redraw leading to a tick, every
\* forwarded event is eventually processed by the update context.
C11_ForwardedIsRepaintedAndProcessed ==
    /\ [][ /\ Len(keycode_chan') > Len(keycode_chan) => rpc' = "repaint"
           /\ rpc = "repaint" => read_log' = read_log
           /\ (rpc = "repaint" /\ rpc' # "repaint")
              => (rpc' = "read" /\ repaint_pending') ]_vars
    /\ \A n \in 1..(MaxRecords + 1) :
          (Len(processed) + Len(keycode_chan) >= n) ~> (Len(processed) >= n)

\* two events were forwarded, each followed by a redraw request, and a tick
\* that a request started has processed the second
C11_Witness ==
    /\ Len(processed) = 2
    /\ Len(tick_drained) = 1
    /\ keycode_chan = <<>>
    /\ rpc = "read"

\* C12: a failed or short read ends the reading path: the record is not
\* forwarded, and the reader reads no further record, sends no further
\* event and requests no further redraw.
C12_ReadFailureIsFatal ==
    [][ /\ (rpc = "read" /\ rpc' # "read" /\ read_log' = read_log)
           => (rpc' = "panicked" /\ UNCHANGED <<keycode_chan, repaint_pending>>)
        /\ rpc = "panicked"
           => /\ rpc' = "panicked"
              /\ UNCHANGED <<read_log, file_open>>
              /\ Len(keycode_chan') <= Len(keycode_chan)
              /\ repaint_pending' => repaint_pending ]_vars

\* a read failed after records had been read and an event forwarded, and
\* the update context went on
C12_Witness ==
    /\ rpc = "panicked"
    /\ file_open
    /\ Len(read_log) >= 1
    /\ Len(processed) >= 1

\* C13: a send that finds the receiver gone is fatal: the reader panics,
\* sends nothing, does not retry and reads no further record, and the
\* process exits.
C13_SendFailureIsFatal ==
    /\ [][ /\ (rpc = "send" /\ ~rx_alive /\ rpc' # rpc)
              => (rpc' = "panicked" /\ UNCHANGED <<read_log, keycode_chan>>)
           /\ (rpc = "panicked" /\ ~rx_alive)
              => /\ rpc' = "panicked"
                 /\ UNCHANGED <<read_log, keycode_chan, repaint_pending>> ]_vars
    /\ (rpc = "panicked" /\ ~rx_alive) ~> (main_pc = "exited")

\* the reader's send failed after App was dropped, and the process exited
C13_Witness ==
    /\ rpc = "panicked"
    /\ ~rx_alive
    /\ Len(KeyClass(read_log)) > Len(processed) + Len(keycode_chan)
    /\ main_pc = "exited"

\* the keysyms of the left and right Ctrl, Shift, Alt and Super keys
ModifierSyms ==
    {XKB_KEY_Control_L, XKB_KEY_Control_R, XKB_KEY_Shift_L, XKB_KEY_Shift_R,
     XKB_KEY_Alt_L, XKB_KEY_Alt_R, XKB_KEY_Super_L, XKB_KEY_Super_R}

\* C16: push_keycode returns a modifier for every keysym of the left and
\* right Ctrl, Shift, Alt and Super keys, never a symbol.
C16_ModifierSymsAreModifiers ==
    \A i \in 1..Len(xkb_log) :
       xkb_log[i].sym \in ModifierSyms
       => xkb_log[i].keypress.kind \in {"Ctrl", "Shift", "Alt", "Super"}

====
